---- MODULE Spec2Model ----
(***************************************************************************)
(* The biography component of the blog (two versions: src/components/bio.js *)
(* with the responsive-image abstraction, and the older one with a plain    *)
(* image path) and the static build that resolves its query, renders it on  *)
(* every page and emits the static output.                                  *)
(***************************************************************************)
EXTENDS Integers, Sequences, FiniteSets, TLC

\* ------------------------------------------------------------------ bounds
\* Longest social handle enumerated.
MaxLen == 1
\* Longest e-mail address enumerated.
MaxEmailLen == 1
\* Number of content file slots of the content source.
MaxFiles == 1

\* -------------------------------------------------------------- JS values
\* A JavaScript value is a tagged record; a string is its sequence of
\* characters, an object its map from property names to values.
Undefined == [t |-> "undefined"]
Str(s) == [t |-> "string", s |-> s]
Obj(f) == [t |-> "object", f |-> f]
Num(n) == [t |-> "number", n |-> n]
NoFields == [k \in {} |-> Undefined]

\* o.k : an own property, or undefined when the object has none of that name
\* (a string or a number has none of the names used here).
Get(o, k) ==
  IF o.t = "object" /\ k \in DOMAIN o.f THEN o.f[k] ELSE Undefined

\* Reading a property of undefined raises a TypeError.
Readable(o) == o.t # "undefined"

RECURSIVE PercentEncode(_)
PercentEncode(s) ==
  IF s = <<>> THEN <<>>
  ELSE (CASE Head(s) = "-" -> <<"%", "2", "D">>
           [] Head(s) = "@" -> <<"%", "4", "0">>
           [] OTHER -> <<Head(s)>>)
         \o PercentEncode(Tail(s))
\* A string conversion that percent-encodes the characters outside [a-z].
StringOfEncoded(v) ==
  CASE v.t = "string" -> PercentEncode(v.s)
    [] v.t = "undefined" -> <<"u","n","d","e","f","i","n","e","d">>
    [] OTHER -> <<"[","o","b","j","e","c","t"," ","O","b","j","e","c","t","]">>

\* The string conversion a template literal applies to ${v}.
StringOf(v) ==
  CASE v.t = "string" -> v.s
    [] v.t = "undefined" -> <<"u","n","d","e","f","i","n","e","d">>
    [] OTHER -> <<"[","o","b","j","e","c","t"," ","O","b","j","e","c","t","]">>

GithubPrefix ==
  <<"h","t","t","p","s",":","/","/","g","i","t","h","u","b",".","c","o","m","/">>
MailtoPrefix == <<"m","a","i","l","t","o",":">>

\* A profile link target built with a trailing slash after the handle.
ProfileHrefTrailingSlash(github) ==
  Str(GithubPrefix \o StringOf(github) \o <<"/">>)

\* `https://github.com/${social.github}`
ProfileHref(github) == Str(GithubPrefix \o StringOf(github))
\* A contact link target written as a hierarchical URL.
ContactHrefSlashes(email) ==
  Str(MailtoPrefix \o <<"/", "/">> \o StringOf(email))

\* A contact link target that is left out when there is no address.
ContactHrefOmittedWhenEmpty(email) ==
  IF email = Str(<<>>) THEN Undefined
  ELSE Str(MailtoPrefix \o StringOf(email))

\* `mailto:${social.email}`
ContactHref(email) == Str(MailtoPrefix \o StringOf(email))

\* ------------------------------------------------------------ render tree
Element(type, props, children) ==
  [type |-> type, props |-> props, children |-> children]
NoProps == [k \in {} |-> 0]
\* Literal JSX text.
Text(s) == [type |-> "#text", value |-> s]
\* The child written without its braces: the literal word, not the value.
ChildLiteral(v) == <<Text("author")>>

\* A {value} child: a string renders as text, undefined renders nothing.
Child(v) ==
  IF v.t = "string" THEN <<[type |-> "#text", chars |-> v.s]>> ELSE <<>>
\* What a render callback that raised leaves instead of a tree.
Threw == [type |-> "#TypeError"]

\* The typography scale: rhythm(n / d) lines of the base line height.
rhythm(n, d) == [t |-> "rhythm", num |-> n, den |-> d]

\* The style of <Image> in src/components/bio.js.
AvatarStyle ==
  [marginRight |-> rhythm(1, 2),
   marginBottom |-> Num(0),
   minWidth |-> Num(100),
   minHeight |-> Num(100),
   borderRadius |-> "100%"]

\* An <img> style sized in pixels.
AvatarStylePlainPixels ==
  [marginRight |-> rhythm(1, 2),
   marginBottom |-> Num(0),
   width |-> Num(50),
   height |-> Num(50),
   borderRadius |-> "50%"]

\* The style of <img> in the older version.
AvatarStylePlain ==
  [marginRight |-> rhythm(1, 2),
   marginBottom |-> Num(0),
   width |-> rhythm(3, 1),
   height |-> rhythm(3, 1),
   borderRadius |-> "50%"]

\* A profile link that opens a new context with rel="noopener" only.
ProfileLinkNoReferrer(social) ==
  Element("a",
          [href |-> ProfileHref(Get(social, "github")),
           target |-> "_blank",
           rel |-> Str(<<"n","o","o","p","e","n","e","r">>)],
          <<Text("Checkout his work on github")>>)

\* The two hyperlinks, the same in both versions.
ProfileLink(social) ==
  Element("a",
          [href |-> ProfileHref(Get(social, "github")),
           target |-> "_blank",
           rel |-> Str(<<"n","o","o","p","e","n","e","r"," ",
                         "n","o","r","e","f","e","r","r","e","r">>)],
          <<Text("Checkout his work on github")>>)

\* The address shown as plain text instead of a hyperlink.
ContactLinkAsText(social) ==
  Element("span", NoProps, Child(Get(social, "email")))

\* A contact link that opens in a new context as well.
ContactLinkNewContext(social) ==
  Element("a",
          [href |-> ContactHref(Get(social, "email")),
           target |-> "_blank",
           rel |-> Str(<<"n","o","o","p","e","n","e","r"," ",
                         "n","o","r","e","f","e","r","r","e","r">>)],
          <<Text("get in touch")>>)

\* <a href={`mailto:${social.email}`}>get in touch</a>
ContactLink(social) ==
  Element("a",
          [href |-> ContactHref(Get(social, "email"))],
          <<Text("get in touch")>>)

\* A component that scales the rendition it was given to twice its size.
AvatarPropResized(avatar) ==
  LET f == Get(Get(avatar, "childImageSharp"), "fixed") IN
  IF f.t = "object"
  THEN Obj([f.f EXCEPT !.width = Num(2 * @.n), !.height = Num(2 * @.n)])
  ELSE f

\* fixed={data.avatar.childImageSharp.fixed}: the rendition object of the
\* query result, as it is.
AvatarProp(avatar) == Get(Get(avatar, "childImageSharp"), "fixed")

\* src/components/bio.js: the render callback of the version that uses the
\* responsive-image abstraction.
Bio(data) ==
  IF ~Readable(Get(data, "site")) THEN Threw ELSE
  LET siteMetadata == Get(Get(data, "site"), "siteMetadata") IN
  IF ~Readable(siteMetadata) THEN Threw ELSE
  LET author == Get(siteMetadata, "author")
      social == Get(siteMetadata, "social")
      avatar == Get(data, "avatar")
  IN
  IF ~Readable(avatar) \/ ~Readable(Get(avatar, "childImageSharp"))
  THEN Threw ELSE
  IF ~Readable(social) THEN Threw ELSE
  Element("div",
    [style |-> [display |-> "flex", marginBottom |-> rhythm(5, 2)]],
    << Element("Image",
         [fixed |-> AvatarProp(avatar),
          alt |-> author,
          style |-> AvatarStyle,
          imgStyle |-> [borderRadius |-> "50%"]],
         <<>>),
       Element("p", NoProps,
         <<Text("Written by "),
           Element("strong", NoProps, Child(author)),
           Text(", a software consultant from Boston, MA who works with React, React-Native, and Typescript. He can sometimes be found crossing enemy lines to work on the backend with Node, GraphQL, and Postgres."),
           Element("br", NoProps, <<>>),
           ProfileLink(social),
           Element("span", NoProps, <<Text(" & ")>>),
           ContactLink(social)>>) >>)

\* The imported asset path of content/assets/profile-pic.jpg.
profilePic == Str(<<"p">>)

\* An older version that lists the contact link first and leaves the image
\* without its alternative text.
BioPlainContactFirst(data) ==
  IF ~Readable(Get(data, "site")) THEN Threw ELSE
  LET siteMetadata == Get(Get(data, "site"), "siteMetadata") IN
  IF ~Readable(siteMetadata) THEN Threw ELSE
  LET author == Get(siteMetadata, "author")
      social == Get(siteMetadata, "social")
  IN
  IF ~Readable(social) THEN Threw ELSE
  Element("div",
    [style |-> [display |-> "flex", marginBottom |-> rhythm(5, 2)]],
    << Element("img",
         [src |-> profilePic,
          alt |-> Str(<<>>),
          style |-> AvatarStylePlain],
         <<>>),
       Element("p", NoProps,
         <<Text("Personal blog by "),
           Element("strong", NoProps, Child(author)),
           Text("."),
           Element("br", NoProps, <<>>),
           Text("Musings and write-ups about coding stuff."),
           Element("br", NoProps, <<>>),
           ContactLink(social),
           Element("span", NoProps, <<Text(" & ")>>),
           ProfileLink(social)>>) >>)

\* The older version of the component: a plain <img> of the imported asset.
BioPlain(data) ==
  IF ~Readable(Get(data, "site")) THEN Threw ELSE
  LET siteMetadata == Get(Get(data, "site"), "siteMetadata") IN
  IF ~Readable(siteMetadata) THEN Threw ELSE
  LET author == Get(siteMetadata, "author")
      social == Get(siteMetadata, "social")
  IN
  IF ~Readable(social) THEN Threw ELSE
  Element("div",
    [style |-> [display |-> "flex", marginBottom |-> rhythm(5, 2)]],
    << Element("img",
         [src |-> profilePic,
          alt |-> author,
          style |-> AvatarStylePlain],
         <<>>),
       Element("p", NoProps,
         <<Text("Personal blog by "),
           Element("strong", NoProps, Child(author)),
           Text("."),
           Element("br", NoProps, <<>>),
           Text("Musings and write-ups about coding stuff."),
           Element("br", NoProps, <<>>),
           ProfileLink(social),
           Element("span", NoProps, <<Text(" & ")>>),
           ContactLink(social)>>) >>)

\* ----------------------------------------------------------------- queries
\* The query without the email field.
bioQueryNoEmail ==
  { <<"avatar", "childImageSharp", "fixed">>,
    <<"site", "siteMetadata", "author">>,
    <<"site", "siteMetadata", "social", "github">> }

\* The query without the github field.
bioQueryNoGithub ==
  { <<"avatar", "childImageSharp", "fixed">>,
    <<"site", "siteMetadata", "author">>,
    <<"site", "siteMetadata", "social", "email">> }

\* The query without the avatar file.
bioQueryNoAvatar ==
  { <<"site", "siteMetadata", "author">>,
    <<"site", "siteMetadata", "social", "github">>,
    <<"site", "siteMetadata", "social", "email">> }

\* A query is the set of field paths it requests.
bioQuery ==
  { <<"avatar", "childImageSharp", "fixed">>,
    <<"site", "siteMetadata", "author">>,
    <<"site", "siteMetadata", "social", "github">>,
    <<"site", "siteMetadata", "social", "email">> }

\* An older query that asks for the author only.
bioQueryPlainNoSocial ==
  { <<"site", "siteMetadata", "author">> }

bioQueryPlain ==
  { <<"site", "siteMetadata", "author">>,
    <<"site", "siteMetadata", "social", "github">>,
    <<"site", "siteMetadata", "social", "email">> }

\* The property paths the render callback of src/components/bio.js reads from
\* its data argument: the destructuring of data.site.siteMetadata, the
\* avatar's rendition, and the two template literals.
BioReads ==
  { <<"site", "siteMetadata", "author">>,
    <<"site", "siteMetadata", "social">>,
    <<"avatar", "childImageSharp", "fixed">>,
    <<"site", "siteMetadata", "social", "github">>,
    <<"site", "siteMetadata", "social", "email">> }

\* The property paths the render callback of the older version reads.
BioPlainReads ==
  { <<"site", "siteMetadata", "author">>,
    <<"site", "siteMetadata", "social">>,
    <<"site", "siteMetadata", "social", "github">>,
    <<"site", "siteMetadata", "social", "email">> }

\* The fixed-size rendition the image pipeline derives for fixed(width, height).
fixed(width, height) ==
  Obj([width |-> Num(width), height |-> Num(height), src |-> profilePic])

\* ------------------------------------------------------------ build inputs
Strings(alphabet, n) == UNION { [1..k -> alphabet] : k \in 0..n }

Handles == Strings({"a", "-"}, MaxLen)
\* The component never looks inside an address: only its length varies.
Emails == Strings({"@"}, MaxEmailLen)
Authors == { <<>>, <<"J">> }

Optional(k, values) == { NoFields } \cup { k :> Str(v) : v \in values }

\* siteMetadata of the build configuration: any of the fields may be absent.
SiteMetadatas ==
  { Obj(a @@ s) :
      a \in Optional("author", Authors),
      s \in { NoFields } \cup
            { "social" :> Obj(g @@ e) :
                g \in Optional("github", Handles),
                e \in Optional("email", Emails) } }

Required == { "title", "date", "description" }
\* The front-matter of a content file: the fields it has, and whether the
\* block parses at all.
\* `extra` counts the further '---'-delimited title/date/description blocks
\* in the body (javascript_basics.md has two, the others none or one).
FrontMatters ==
  { [wellFormed |-> TRUE, fields |-> Required, extra |-> 0],
    [wellFormed |-> TRUE, fields |-> Required, extra |-> 2],
    [wellFormed |-> TRUE, fields |-> Required \ {"date"}, extra |-> 0],
    [wellFormed |-> FALSE, fields |-> {}, extra |-> 0] }
Slugs == 1..MaxFiles
Contents == UNION { [S -> FrontMatters] : S \in SUBSET Slugs }

Versions == { "bio.js", "plain" }

\* ----------------------------------------------------------- content files
\* The leading lines of a content file: the fence, the three fields, the
\* fence. Only the date's value is kept, as it is written (quotes included).
Fence == [kind |-> "fence"]
Field(key, value) == [kind |-> "field", key |-> key, value |-> value]
FrontMatterBlock(date) ==
  << Fence, Field("title", <<>>), Field("date", date),
     Field("description", <<>>), Fence >>

javascript_basics ==
  FrontMatterBlock(<<"\"","2","0","1","9","-","0","8","-","1","9","\"">>)
react_and_typescript ==
  FrontMatterBlock(<<"\"","2","0","1","9","-","0","4","-","2","4","\"">>)
react_native_dark_mode ==
  FrontMatterBlock(<<"\"","2","0","1","9","-","1","1","-","1","8","\"">>)
react_native_internationalization ==
  FrontMatterBlock(<<"\"","2","0","1","9","-","1","1","-","1","9","\"">>)
react_native_linting_and_testing ==
  FrontMatterBlock(<<"\"","2","0","1","9","-","1","1","-","1","3","\"">>)
react_native_navigation_v5 ==
  FrontMatterBlock(<<"\"","2","0","1","9","-","1","1","-","1","9","\"">>)
react_native_state_management ==
  FrontMatterBlock(<<"\"","2","0","1","9","-","0","8","-","3","1","\"">>)
testing_and_ci_cd ==
  FrontMatterBlock(<<"\"","2","0","1","9","-","0","9","-","6","\"">>)
part_000 ==
  FrontMatterBlock(<<"\"","2","0","1","9","-","0","9","-","2","6","\"">>)

RepositoryFiles ==
  << javascript_basics, react_and_typescript, react_native_dark_mode,
     react_native_internationalization, react_native_linting_and_testing,
     react_native_navigation_v5, react_native_state_management,
     testing_and_ci_cd, part_000 >>

\* A quoted scalar without its quotes.
Unquote(v) ==
  IF Len(v) >= 2 /\ Head(v) = "\"" /\ v[Len(v)] = "\""
  THEN SubSeq(v, 2, Len(v) - 1) ELSE v

Digits == { "0", "1", "2", "3", "4", "5", "6", "7", "8", "9" }
\* YYYY-MM-DD, place by place: d is a digit.
IsoDatePattern == << "d", "d", "d", "d", "-", "d", "d", "-", "d", "d" >>
Matches(c, i) ==
  /\ i <= Len(IsoDatePattern)
  /\ IF IsoDatePattern[i] = "d" THEN c \in Digits ELSE c = IsoDatePattern[i]

VARIABLES
  siteMetadata,  \* the build configuration's siteMetadata
  version,       \* which version of the component the site renders
  content,       \* the content source: slug -> front-matter
  phase,         \* idle, sourcing, querying, rendering, done, failed
  posts,         \* the posts parsed by the running build
  data,          \* the data object the query resolved to
  rendered,      \* page -> render tree, of the running build
  output,        \* page -> emitted markup
  errors,        \* the diagnostics of the running build
  served,        \* the last response served from the output
  history,       \* every (scope, input, output) of the render callback so far
  sourced,       \* the content files the running build read
  passes,        \* page -> render passes made in the running build
  scan           \* the front-matter reader: the file open and the place in it

vars == << siteMetadata, version, content, phase, posts, data, rendered,
           output, errors, served, history, sourced, passes, scan >>
\* The state of the build, which reading a content file leaves alone.
build == << siteMetadata, version, content, phase, posts, data, rendered,
            output, errors, served, history, sourced, passes >>

Closed == [stage |-> "closed"]
NoPages == [p \in {} |-> Threw]
NoResponse == [page |-> <<>>]

\* The build's data layer: the site node and the avatar file node.
Sources ==
  Obj([site |-> Obj([siteMetadata |-> siteMetadata]),
       avatar |-> Obj([childImageSharp |-> Obj([fixed |-> fixed(50, 50)])])])

Query == IF version = "bio.js" THEN bioQuery ELSE bioQueryPlain

RECURSIVE Exists(_, _)
\* Whether the data layer has the field the path names.
Exists(node, path) ==
  \/ path = <<>>
  \/ /\ node.t = "object"
     /\ Head(path) \in DOMAIN node.f
     /\ Exists(node.f[Head(path)], Tail(path))
HasPath(d, path) == Exists(d, path)

\* A render callback that numbers its output with a count of the renders
\* made before it.
RenderNumbered(d) ==
  LET tree == IF version = "bio.js" THEN Bio(d) ELSE BioPlain(d) IN
  IF tree = Threw THEN tree
  ELSE [tree EXCEPT !.props = [id |-> Cardinality(DOMAIN rendered)] @@ @]

Render(d) == IF version = "bio.js" THEN Bio(d) ELSE BioPlain(d)

\* A component that lets an author prop of its caller override the query's.
BioComponentWithProps(props, d) ==
  IF "author" \in DOMAIN props /\ HasPath(d, <<"site", "siteMetadata", "author">>)
  THEN Render([d EXCEPT !.f.site.f.siteMetadata.f.author = props.author])
  ELSE Render(d)

\* function Bio() declares no parameter: whatever the call site passes is
\* dropped, and the tree is what the render callback makes of the data.
BioComponent(props, d) == Render(d)

\* A render callback that blanks the address in the data once it is used.
RenderEffectClearsEmail(d) ==
  IF HasPath(d, <<"site", "siteMetadata", "social", "email">>)
  THEN [d EXCEPT !.f.site.f.siteMetadata.f.social.f.email = Str(<<>>)]
  ELSE d

\* The data object after the render callback ran: the callback assigns to
\* nothing, so it is the object it was given.
RenderEffect(d) == d

RECURSIVE Project(_, _)
\* The result of a query: the requested fields and nothing else.
Project(node, paths) ==
  IF <<>> \in paths THEN node
  ELSE Obj([k \in { Head(p) : p \in paths } |->
              Project(Get(node, k),
                      { Tail(p) : p \in { q \in paths : Head(q) = k } })])

\* One page per post and the index page.
PageOf(slugs) == { <<"index">> } \cup { <<"post", s>> : s \in slugs }
Pages == PageOf(DOMAIN posts)

\* What the call site of <Bio /> on a page has in scope and may pass: the
\* index page nothing, a post page the post's own author line.
CallerScope(p) ==
  IF p = <<"index">> THEN [k \in {} |-> Undefined]
  ELSE [author |-> Str(<<"X">>)]

\* A parser that starts a new post at every '---'-delimited block.
ParsedSplitting(c) ==
  [i \in UNION { { s + MaxFiles * k : k \in 0..c[s].extra } : s \in DOMAIN c }
     |-> c[((i - 1) % MaxFiles) + 1]]

\* The posts of the content files: the leading block of a file is its
\* front-matter, the rest of the file is its body, so one post per file.
Parsed(c) == [s \in DOMAIN c |-> c[s]]

\* The content file a post page comes from.
FileOf(p) == ((p[2] - 1) % MaxFiles) + 1

\* ------------------------------------------------------------------- build
Init ==
  /\ siteMetadata \in SiteMetadatas
  /\ version \in Versions
  /\ content \in Contents
  /\ phase = "idle"
  /\ posts = NoPages
  /\ data = Undefined
  /\ rendered = NoPages
  /\ output = NoPages
  /\ errors = {}
  /\ served = NoResponse
  /\ history = {}
  /\ sourced = NoPages
  /\ passes = NoPages
  /\ scan = Closed

Building == phase \in { "sourcing", "querying", "rendering" }

\* A content file is added to the content source.
AddContent(s, fm) ==
  /\ ~Building
  /\ s \notin DOMAIN content
  /\ content' = content @@ (s :> fm)
  /\ UNCHANGED << scan, siteMetadata, version, phase, posts, data, rendered,
                  output, errors, served, history, sourced, passes >>

\* A content file is deleted from the content source.
DeleteContent(s) ==
  /\ ~Building
  /\ s \in DOMAIN content
  /\ content' = [x \in DOMAIN content \ {s} |-> content[x]]
  /\ UNCHANGED << scan, siteMetadata, version, phase, posts, data, rendered,
                  output, errors, served, history, sourced, passes >>

\* A build starts from nothing: no data, no pages, no output.
StartBuild ==
  /\ ~Building
  /\ phase' = "sourcing"
  /\ posts' = NoPages
  /\ data' = Undefined
  /\ rendered' = NoPages
  /\ output' = NoPages
  /\ errors' = {}
  /\ served' = NoResponse
  /\ sourced' = NoPages
  /\ passes' = NoPages
  /\ UNCHANGED << scan, siteMetadata, version, content, history >>

\* A front-matter check that lets a missing date default.
ValidFrontMatterDateOptional(fm) ==
  fm.wellFormed /\ (Required \ {"date"}) \subseteq fm.fields

ValidFrontMatter(fm) == fm.wellFormed /\ Required \subseteq fm.fields

\* A build that reports a content error, skips the file and goes on.
ParseContentLenient ==
  /\ phase = "sourcing"
  /\ sourced' = content
  /\ posts' = [x \in { y \in DOMAIN content : ValidFrontMatter(content[y]) }
                 |-> content[x]]
  /\ phase' = "querying"
  /\ errors' = IF \A x \in DOMAIN content : ValidFrontMatter(content[x])
               THEN errors
               ELSE errors \cup { [kind |-> "content", at |-> "build"] }
  /\ UNCHANGED << scan, siteMetadata, version, content, data, rendered, output,
                  served, history, passes >>

\* The content files are parsed; a content error fails the build.
ParseContent ==
  /\ phase = "sourcing"
  /\ sourced' = content
  /\ IF \A s \in DOMAIN content : ValidFrontMatter(content[s])
     THEN /\ posts' = Parsed(content)
          /\ phase' = "querying"
          /\ errors' = errors
     ELSE /\ posts' = posts
          /\ phase' = "failed"
          /\ errors' = errors \cup { [kind |-> "content", at |-> "build"] }
  /\ UNCHANGED << scan, siteMetadata, version, content, data, rendered, output,
                  served, history, passes >>

\* The component's query is resolved against the data layer; a query that
\* names a field the data layer does not have fails the build.
ResolveQuery ==
  /\ phase = "querying"
  /\ IF \A path \in Query : Exists(Sources, path)
     THEN /\ data' = Project(Sources, Query)
          /\ phase' = "rendering"
          /\ errors' = errors
     ELSE /\ data' = data
          /\ phase' = "failed"
          /\ errors' = errors \cup
                         { [kind |-> "data-resolution", at |-> "build"] }
  /\ UNCHANGED << scan, siteMetadata, version, content, posts, rendered, output,
                  served, history, sourced, passes >>

\* A render pass that does not wait for the query to be resolved.
RenderPageEarly(p) ==
  /\ phase \in { "querying", "rendering" }
  /\ p \in Pages \ DOMAIN rendered
  /\ LET tree == BioComponent(CallerScope(p), data) IN
       /\ history' = history \cup
            { [scope |-> CallerScope(p), input |-> data, output |-> tree] }
       /\ data' = data
       /\ passes' = passes @@ (p :> 1)
       /\ IF tree = Threw
          THEN /\ phase' = "failed"
               /\ errors' = errors \cup { [kind |-> "render", at |-> "build"] }
               /\ rendered' = rendered
          ELSE /\ phase' = phase
               /\ errors' = errors
               /\ rendered' = rendered @@ (p :> tree)
  /\ UNCHANGED << scan, siteMetadata, version, content, posts, output, served,
                  sourced >>

\* The render pass of one page: StaticQuery hands the resolved data to the
\* render callback. A callback that raises fails the build.
RenderPage(p) ==
  /\ phase = "rendering"
  /\ p \in Pages \ DOMAIN rendered
  /\ LET tree == BioComponent(CallerScope(p), data) IN
       /\ history' = history \cup
            { [scope |-> CallerScope(p), input |-> data, output |-> tree] }
       /\ data' = RenderEffect(data)
       /\ passes' = [q \in DOMAIN passes \cup {p} |->
                       IF q \in DOMAIN passes THEN passes[q] + (IF q = p THEN 1 ELSE 0)
                       ELSE 1]
       /\ IF tree = Threw
          THEN /\ phase' = "failed"
               /\ errors' = errors \cup { [kind |-> "render", at |-> "build"] }
               /\ rendered' = rendered
          ELSE /\ phase' = phase
               /\ errors' = errors
               /\ rendered' = rendered @@ (p :> tree)
  /\ UNCHANGED << scan, siteMetadata, version, content, posts, output, served,
                  sourced >>

\* An emit that writes the index page and leaves the post pages out.
EmitIndexOnly ==
  /\ phase = "rendering"
  /\ DOMAIN rendered = Pages
  /\ output' = [p \in { <<"index">> } |-> rendered[p]]
  /\ phase' = "done"
  /\ UNCHANGED << scan, siteMetadata, version, content, posts, data, rendered,
                  errors, served, history, sourced, passes >>

\* Every page is rendered: the static output is emitted.
Emit ==
  /\ phase = "rendering"
  /\ DOMAIN rendered = Pages
  /\ output' = rendered
  /\ phase' = "done"
  /\ UNCHANGED << scan, siteMetadata, version, content, posts, data, rendered,
                  errors, served, history, sourced, passes >>

\* A page of the emitted output is served as it is.
Serve(p) ==
  /\ phase = "done"
  /\ p \in DOMAIN output
  /\ served' = [page |-> p, body |-> output[p]]
  /\ UNCHANGED << scan, siteMetadata, version, content, phase, posts, data,
                  rendered, output, errors, history, sourced, passes >>

Next ==
  \/ \E s \in Slugs, fm \in FrontMatters : AddContent(s, fm)
  \/ \E s \in Slugs : DeleteContent(s)
  \/ StartBuild
  \/ ParseContent
  \/ ResolveQuery
  \/ \E p \in Pages : RenderPage(p)
  \/ Emit
  \/ \E p \in DOMAIN output : Serve(p)

Spec == Init /\ [][Next]_vars

\* ------------------------------------------------ reading the front-matter
\* A content file of the repository is opened at its first line.
OpenFile(i) ==
  /\ scan = Closed
  /\ scan' = [stage |-> "reading", file |-> i, line |-> 0, fences |-> 0,
              fields |-> {}, date |-> <<>>, pos |-> 0, dateOk |-> TRUE]
  /\ UNCHANGED build

\* The next line of the leading block is read: the block opens with a fence
\* on the first line and closes with the next fence.
ReadLine ==
  /\ scan.stage = "reading"
  /\ LET l == RepositoryFiles[scan.file][scan.line + 1] IN
       IF l.kind = "fence"
       THEN scan' = [scan EXCEPT !.line = @ + 1, !.fences = @ + 1,
                                 !.stage = IF scan.fences = 1
                                           THEN "dating" ELSE @]
       ELSE IF scan.fences = 0
       THEN scan' = [scan EXCEPT !.stage = "malformed"]
       ELSE scan' = [scan EXCEPT !.line = @ + 1,
                                 !.fields = @ \cup { l.key },
                                 !.date = IF l.key = "date"
                                          THEN Unquote(l.value) ELSE @]
  /\ UNCHANGED build

\* The date is held against YYYY-MM-DD one character at a time.
CheckDateChar ==
  /\ scan.stage = "dating"
  /\ IF scan.pos < Len(scan.date)
     THEN scan' = [scan EXCEPT !.pos = @ + 1,
                               !.dateOk = @ /\ Matches(scan.date[scan.pos + 1],
                                                       scan.pos + 1)]
     ELSE scan' = [scan EXCEPT !.stage = "checked",
                               !.dateOk = @ /\ Len(scan.date) =
                                                 Len(IsoDatePattern)]
  /\ UNCHANGED build

CloseFile ==
  /\ scan.stage \in { "checked", "malformed" }
  /\ scan' = Closed
  /\ UNCHANGED build

ContentInit ==
  /\ siteMetadata = Obj(NoFields)
  /\ version = "bio.js"
  /\ content = NoPages
  /\ phase = "idle"
  /\ posts = NoPages
  /\ data = Undefined
  /\ rendered = NoPages
  /\ output = NoPages
  /\ errors = {}
  /\ served = NoResponse
  /\ history = {}
  /\ sourced = NoPages
  /\ passes = NoPages
  /\ scan = Closed

ContentNext ==
  \/ \E i \in 1..Len(RepositoryFiles) : OpenFile(i)
  \/ ReadLine
  \/ CheckDateChar
  \/ CloseFile

ContentSpec == ContentInit /\ [][ContentNext]_vars

\* ------------------------------------------------------------- properties
RECURSIVE Nodes(_)
RECURSIVE NodesOfAll(_)
\* The nodes of a render tree in document order.
Nodes(e) ==
  <<e>> \o (IF "children" \in DOMAIN e THEN NodesOfAll(e.children) ELSE <<>>)
NodesOfAll(es) ==
  IF es = <<>> THEN <<>> ELSE Nodes(Head(es)) \o NodesOfAll(Tail(es))

IsLink(n) == n.type = "a"
Links(tree) == SelectSeq(Nodes(tree), IsLink)
ProfileLinkOf(tree) == Links(tree)[1]
ContactLinkOf(tree) == Links(tree)[2]

RECURSIVE TokensFrom(_, _)
TokensFrom(s, cur) ==
  LET done == IF cur = <<>> THEN {} ELSE { cur } IN
  IF s = <<>> THEN done
  ELSE IF Head(s) = " " THEN done \cup TokensFrom(Tail(s), <<>>)
  ELSE TokensFrom(Tail(s), Append(cur, Head(s)))
\* The space-separated tokens of an attribute value.
Tokens(s) == TokensFrom(s, <<>>)

OpensNewContext(a) == "target" \in DOMAIN a.props /\ a.props.target = "_blank"
NoOpenerNoReferrer(a) ==
  /\ "rel" \in DOMAIN a.props
  /\ <<"n","o","o","p","e","n","e","r">> \in Tokens(a.props.rel.s)
  /\ <<"n","o","r","e","f","e","r","r","e","r">> \in Tokens(a.props.rel.s)

\* Every render tree the build holds: rendered, emitted, or ever returned by
\* the render callback.
Trees ==
  ({ rendered[p] : p \in DOMAIN rendered }
     \cup { output[p] : p \in DOMAIN output }
     \cup { h.output : h \in history }) \ { Threw }

social == Get(siteMetadata, "social")
github == Get(social, "github")
email == Get(social, "email")
author == Get(siteMetadata, "author")
NonEmptyString(v) == v.t = "string" /\ v.s # <<>>

\* C1: whenever the configured social.github is a non-empty string, the href
\* of the profile link of every render tree is "https://github.com/"
\* followed by that handle and nothing else.
C1_ProfileHrefExact ==
  NonEmptyString(github) =>
    \A t \in Trees :
      ProfileLinkOf(t).props.href = Str(GithubPrefix \o github.s)

C1_Witness ==
  /\ NonEmptyString(github)
  /\ \E p \in DOMAIN output :
       ProfileLinkOf(output[p]).props.href.s = GithubPrefix \o github.s

\* C2: whenever the configured social.email is a non-empty string, the href
\* of the contact link of every render tree is "mailto:" followed by that
\* address and nothing else.
C2_ContactHrefExact ==
  NonEmptyString(email) =>
    \A t \in Trees :
      ContactLinkOf(t).props.href = Str(MailtoPrefix \o email.s)

C2_Witness ==
  /\ NonEmptyString(email)
  /\ \E p \in DOMAIN output :
       ContactLinkOf(output[p]).props.href.s = MailtoPrefix \o email.s

\* C3: in every render tree the profile link has target "_blank" and carries
\* the noopener and the noreferrer relation, and so does every link of the
\* tree that opens a new browsing context.
C3_NewContextLinksAreIsolated ==
  \A t \in Trees :
    /\ OpensNewContext(ProfileLinkOf(t))
    /\ NoOpenerNoReferrer(ProfileLinkOf(t))
    /\ \A i \in 1..Len(Links(t)) :
         OpensNewContext(Links(t)[i]) => NoOpenerNoReferrer(Links(t)[i])

C3_Witness ==
  \E p \in DOMAIN rendered :
    /\ OpensNewContext(ProfileLinkOf(rendered[p]))
    /\ Len(Links(rendered[p])) = 2
    /\ ~OpensNewContext(ContactLinkOf(rendered[p]))

\* C4: the render output is a function of the resolved data alone: any two
\* invocations of the render callback with the same data returned the same
\* tree, however many renders came before, and the pages of one build (all
\* rendered from the one resolved data object) carry the same biography.
C4_RenderIsPure ==
  /\ \A h1, h2 \in history : h1.input = h2.input => h1.output = h2.output
  /\ \A p, q \in DOMAIN rendered : rendered[p] = rendered[q]
  /\ \A p \in DOMAIN rendered :
       \E h \in history : h.input = data /\ h.output = rendered[p]

C4_Witness ==
  /\ Cardinality(DOMAIN rendered) >= 2
  /\ Cardinality(history) >= 2
  /\ \E p \in DOMAIN rendered, h \in history :
       h.input = data /\ h.output = rendered[p]

\* The data object has author, social.github and social.email.
HasMetadata(d) ==
  LET sm == Get(Get(d, "site"), "siteMetadata") IN
    /\ Get(sm, "author").t = "string"
    /\ Get(Get(sm, "social"), "github").t = "string"
    /\ Get(Get(sm, "social"), "email").t = "string"

\* C5: every data object the render callback was ever invoked with has
\* author, social.github and social.email, and so has the resolved data of a
\* build that is rendering or has emitted its output.
C5_RenderObservesCompleteMetadata ==
  /\ \A h \in history : HasMetadata(h.input)
  /\ phase \in { "rendering", "done" } => HasMetadata(data)

C5_Witness ==
  /\ phase = "rendering"
  /\ rendered # NoPages
  /\ \E h \in history : h.input = data /\ HasMetadata(h.input)

\* C6: when the build configuration lacks author, social.github or
\* social.email, the build never gets to render: the component leaves no
\* tree (none rendered, emitted or served, no partial block, no raised
\* render), and a failed query resolution leaves a failed build with no
\* markup.
C6_NoMarkupWithoutMetadata ==
  /\ ~HasMetadata(Sources) =>
       /\ Trees = {}
       /\ history = {}
       /\ served = NoResponse
       /\ phase \notin { "rendering", "done" }
  /\ [kind |-> "data-resolution", at |-> "build"] \in errors =>
       /\ phase = "failed"
       /\ rendered = NoPages
       /\ output = NoPages

C6_Witness ==
  /\ ~HasMetadata(Sources)
  /\ [kind |-> "data-resolution", at |-> "build"] \in errors
  /\ phase = "failed"
  /\ Trees = {}

\* C7: every error is raised while the build runs; a build that raised one
\* is failed and has emitted nothing that can be served; a build that has
\* emitted its output has no error, and what is served is the emitted
\* markup as it is.
C7_FailFastAtBuildTime ==
  /\ \A e \in errors : e.at = "build"
  /\ errors # {} => phase = "failed" /\ output = NoPages /\ served = NoResponse
  /\ phase = "done" => errors = {}
  /\ served # NoResponse =>
       /\ phase = "done"
       /\ served.page \in DOMAIN output
       /\ served.body = output[served.page]

C7_Witness ==
  /\ phase = "done"
  /\ served # NoResponse
  /\ errors = {}
  /\ \E s \in DOMAIN posts : served.page = <<"post", s>>

IsImage(n) == n.type \in { "Image", "img" }
IsParagraph(n) == n.type = "p"
Count(tree, Test(_)) == Len(SelectSeq(Nodes(tree), Test))
StartsWith(s, prefix) ==
  Len(s) >= Len(prefix) /\ SubSeq(s, 1, Len(prefix)) = prefix

\* C8: every render tree has exactly one image element and exactly one
\* paragraph, and the hyperlinks of the tree are exactly two, both inside
\* the paragraph: first the profile link, then the contact link.
C8_OneImageOneParagraphTwoLinks ==
  \A t \in Trees :
    /\ Count(t, IsImage) = 1
    /\ Count(t, IsParagraph) = 1
    /\ Len(Links(t)) = 2
    /\ \A i \in 1..Len(Nodes(t)) :
         IsParagraph(Nodes(t)[i]) => Links(Nodes(t)[i]) = Links(t)
    /\ StartsWith(Links(t)[1].props.href.s, GithubPrefix)
    /\ StartsWith(Links(t)[2].props.href.s, MailtoPrefix)

C8_Witness ==
  \E p \in DOMAIN rendered :
    /\ Count(rendered[p], IsImage) = 1
    /\ Count(rendered[p], IsParagraph) = 1
    /\ Len(Links(rendered[p])) = 2

\* C9: in every render tree the profile href is as long as the prefix plus
\* the configured handle, and after the prefix it is the handle character
\* for character, a hyphen included.
C9_HandlePassesThroughUnescaped ==
  github.t = "string" =>
    \A t \in Trees :
      LET href == ProfileLinkOf(t).props.href.s IN
        /\ Len(href) = Len(GithubPrefix) + Len(github.s)
        /\ \A i \in 1..Len(github.s) :
             href[Len(GithubPrefix) + i] = github.s[i]

C9_Witness ==
  /\ github.t = "string"
  /\ \E i \in 1..Len(github.s) : github.s[i] = "-"
  /\ \E p \in DOMAIN output :
       LET href == ProfileLinkOf(output[p]).props.href.s IN
         \E i \in 1..Len(href) : href[i] = "-"

\* The tree has the text as the content of its <strong> element.
HasAuthorText(tree, chars) ==
  \E i \in 1..Len(Nodes(tree)) :
    /\ Nodes(tree)[i].type = "strong"
    /\ Nodes(tree)[i].children = <<[type |-> "#text", chars |-> chars]>>

\* C10: for every invocation of the render callback, the one tree it
\* returned has the author of its input as text, a profile link to
\* https://github.com/<github of its input> that opens a new context, and a
\* contact link to mailto:<email of its input>.
C10_AuthorAndBothLinksInOneOutput ==
  \A h \in history :
    LET sm == Get(Get(h.input, "site"), "siteMetadata")
        t == h.output
    IN
      /\ t # Threw
      /\ HasAuthorText(t, Get(sm, "author").s)
      /\ \E i \in 1..Len(Links(t)) :
           /\ Links(t)[i].props.href =
                Str(GithubPrefix \o Get(Get(sm, "social"), "github").s)
           /\ OpensNewContext(Links(t)[i])
      /\ \E i \in 1..Len(Links(t)) :
           Links(t)[i].props.href =
             Str(MailtoPrefix \o Get(Get(sm, "social"), "email").s)

C10_Witness ==
  \E h \in history :
    /\ Get(Get(Get(h.input, "site"), "siteMetadata"), "author") = Str(<<"J">>)
    /\ HasAuthorText(h.output, <<"J">>)
    /\ Len(Links(h.output)) = 2

\* C11: the tree the component returns depends on the resolved data only:
\* call sites that pass different values get the same tree from the same
\* data, and the author in it is the data's, never the caller's.
C11_NoCallerProps ==
  /\ \A h1, h2 \in history :
       h1.scope # h2.scope /\ h1.input = h2.input => h1.output = h2.output
  /\ \A h \in history :
       h.output # Threw =>
         HasAuthorText(h.output,
                       Get(Get(Get(h.input, "site"), "siteMetadata"),
                           "author").s)

C11_Witness ==
  \E h1, h2 \in history :
    /\ h1.scope # h2.scope
    /\ "author" \in DOMAIN h1.scope
    /\ h1.input = h2.input
    /\ h1.output = h2.output
    /\ h1.output # Threw

RenderStep == \E p \in Pages : RenderPage(p)

\* C12: a render pass changes neither the build configuration's
\* siteMetadata, nor the content files, nor the posts, nor the resolved data
\* (the avatar reference in it included), nor anything else but the build's
\* own record of the pass: after it the data is still what the query
\* resolves to from the configuration.
C12_RenderHasNoSideEffects ==
  [][RenderStep =>
       /\ siteMetadata' = siteMetadata
       /\ content' = content
       /\ posts' = posts
       /\ data' = data
       /\ data' = Project(Sources, Query)
       /\ UNCHANGED << version, output, served, sourced, scan >>]_vars

C12_Witness ==
  /\ Cardinality(DOMAIN rendered) >= 2
  /\ data = Project(Sources, Query)
  /\ posts = Parsed(content)
  /\ NonEmptyString(email)

\* The post pages that come from content file s.
PostPagesOf(pages, s) ==
  { p \in pages : p # <<"index">> /\ FileOf(p) = s }

\* C13: every content file the build read yields exactly one post, and the
\* emitted output has exactly one page for it, at the address of the file;
\* a file whose body has further '---'-delimited blocks is no exception.
C13_EachFileOnePage ==
  /\ phase \in { "querying", "rendering", "done" } =>
       \A s \in DOMAIN sourced :
         Cardinality(PostPagesOf(Pages, s)) = 1
  /\ phase = "done" =>
       \A s \in DOMAIN sourced :
         /\ Cardinality(PostPagesOf(DOMAIN output, s)) = 1
         /\ <<"post", s>> \in DOMAIN output

C13_Witness ==
  /\ phase = "done"
  /\ \E s \in DOMAIN sourced :
       /\ sourced[s].extra > 0
       /\ PostPagesOf(DOMAIN output, s) = { <<"post", s>> }

ImageOf(tree) == SelectSeq(Nodes(tree), IsImage)[1]
MetadataPaths ==
  { <<"site", "siteMetadata", "author">>,
    <<"site", "siteMetadata", "social", "github">>,
    <<"site", "siteMetadata", "social", "email">> }
AvatarPath == <<"avatar", "childImageSharp", "fixed">>

IsRhythm(v) == v.t = "rhythm"

\* C15 as stated: the image element of every tree has a width and a height
\* that are values of rhythm.
C15_AsStated ==
  \A t \in Trees :
    LET style == ImageOf(t).props.style IN
      /\ { "width", "height" } \subseteq DOMAIN style
      /\ IsRhythm(style.width)
      /\ IsRhythm(style.height)

\* C15: in the older version the width and the height of the image are
\* rhythm(3); in the version of src/components/bio.js the image has no width
\* or height of the scale: its minimum width and height are the number 100
\* and its rendition is 50 by 50. In both the right margin is rhythm(1/2).
C15_ImageSizePerVersion ==
  \A t \in Trees :
    LET image == ImageOf(t)
        style == image.props.style
    IN
      /\ style.marginRight = rhythm(1, 2)
      /\ version = "plain" =>
           /\ style.width = rhythm(3, 1)
           /\ style.height = rhythm(3, 1)
      /\ version = "bio.js" =>
           /\ { "width", "height" } \cap DOMAIN style = {}
           /\ style.minWidth = Num(100)
           /\ style.minHeight = Num(100)
           /\ Get(image.props.fixed, "width") = Num(50)
           /\ Get(image.props.fixed, "height") = Num(50)

C15_Witness ==
  /\ version = "plain"
  /\ \E p \in DOMAIN rendered :
       IsRhythm(ImageOf(rendered[p]).props.style.width)

\* C16: the render callback is only ever invoked with the data the query
\* resolved to, so after resolution; and a build makes one render pass per
\* page: never two of one page, and one of every page by the time it emits.
C16_ResolveBeforeRenderOnePassPerPage ==
  /\ \A h \in history : h.input # Undefined
  /\ passes # NoPages =>
       /\ phase \in { "rendering", "done", "failed" }
       /\ data = Project(Sources, Query)
  /\ \A p \in DOMAIN passes : p \in Pages /\ passes[p] = 1
  /\ phase = "done" => DOMAIN passes = Pages

C16_Witness ==
  /\ phase = "done"
  /\ Cardinality(DOMAIN passes) >= 2
  /\ \A p \in Pages : passes[p] = 1

\* C17: every render of a build observed the one siteMetadata of the
\* configuration, and the pages of a build carry the same biography,
\* whichever were rendered first.
C17_PagesShareNothing ==
  /\ \A h \in history :
       Get(Get(h.input, "site"), "siteMetadata") = siteMetadata
  /\ \A p, q \in DOMAIN rendered : rendered[p] = rendered[q]
  /\ \A p, q \in DOMAIN output : output[p] = output[q]

C17_Witness ==
  /\ phase = "done"
  /\ Cardinality(DOMAIN output) >= 2
  /\ \A p \in DOMAIN output : output[p] = output[<<"index">>]

\* C18: the post pages of the output of a finished build are those of the
\* content files present when the build read the content source, whatever
\* was added or deleted before or since, and the posts are as they were
\* parsed.
C18_OutputFollowsContent ==
  /\ Building => sourced \in { NoPages, content }
  /\ phase \in { "querying", "rendering", "done" } => posts = Parsed(sourced)
  /\ phase = "done" =>
       { p \in DOMAIN output : p # <<"index">> } =
         { <<"post", s>> : s \in DOMAIN sourced }

C18_Witness ==
  /\ phase = "done"
  /\ DOMAIN sourced # {}
  /\ DOMAIN content = {}
  /\ \A s \in DOMAIN sourced : <<"post", s>> \in DOMAIN output

\* The front-matter does not parse, or lacks a required field.
BadFrontMatter(fm) == ~fm.wellFormed \/ ~(Required \subseteq fm.fields)

\* C19: a build that read a content file whose front-matter is malformed or
\* lacks title, date or description is failed with a content error, and has
\* no post, no rendered page and no output.
C19_ContentErrorFailsBuild ==
  (\E s \in DOMAIN sourced : BadFrontMatter(sourced[s])) =>
    /\ phase = "failed"
    /\ [kind |-> "content", at |-> "build"] \in errors
    /\ posts = NoPages
    /\ rendered = NoPages
    /\ output = NoPages

C19_Witness ==
  /\ phase = "failed"
  /\ \E s \in DOMAIN sourced :
       sourced[s].wellFormed /\ "date" \notin sourced[s].fields
  /\ output = NoPages

\* C20: every content file of the repository read to the end of its leading
\* block has a title, a date and a description, and its date has the form
\* YYYY-MM-DD.
C20_RepositoryFrontMatter ==
  /\ scan.stage # "malformed"
  /\ scan.stage = "checked" =>
       /\ Required \subseteq scan.fields
       /\ scan.dateOk

\* The rendition the data layer holds for the avatar file.
Rendition == Get(Get(Get(Sources, "avatar"), "childImageSharp"), "fixed")
HoldsImage(n) == "props" \in DOMAIN n /\ { "fixed", "src" } \cap DOMAIN n.props # {}

OtherVersionTree ==
  IF version = "bio.js" THEN BioPlain(Project(Sources, bioQueryPlain))
  ELSE Bio(Project(Sources, bioQuery))
LinkAttributes(a) ==
  [k \in { "href", "target", "rel" } |->
     IF k \in DOMAIN a.props THEN <<a.props[k]>> ELSE <<>>]
LinksAttributes(tree) ==
  LET links == Links(tree) IN
  [i \in 1..Len(links) |-> LinkAttributes(links[i])]

\* C22: for every siteMetadata, the tree of the version that was built and
\* the tree the other version makes of the same siteMetadata have the same
\* hyperlinks: two, in the same order, each with the same href, target and
\* rel; and in both the alternative text of the image is the author.
C22_VersionsAgreeOnLinks ==
  \A t \in Trees :
    /\ OtherVersionTree # Threw
    /\ Len(Links(t)) = 2
    /\ Links(t) = Links(OtherVersionTree)
    /\ LinksAttributes(t) = LinksAttributes(OtherVersionTree)
    /\ ImageOf(t).props.alt = author
    /\ ImageOf(OtherVersionTree).props.alt = author
    /\ ImageOf(t).type # ImageOf(OtherVersionTree).type

C22_Witness ==
  /\ phase = "done"
  /\ NonEmptyString(github)
  /\ NonEmptyString(email)
  /\ NonEmptyString(author)
  /\ \E p \in DOMAIN output :
       /\ LinksAttributes(output[p]) = LinksAttributes(OtherVersionTree)
       /\ ImageOf(output[p]).type # ImageOf(OtherVersionTree).type

Reads == IF version = "bio.js" THEN BioReads ELSE BioPlainReads
\* A path is requested when the query names it or a field below it.
IsPrefix(path, q) ==
  Len(path) <= Len(q) /\ SubSeq(q, 1, Len(path)) = path
Requested(path) == \E q \in Query : IsPrefix(path, q)
RenderError == [kind |-> "render", at |-> "build"]

\* C23: in the version that is built, every property path the render
\* callback reads is requested by that version's query and is there in the
\* resolved data; and once the query is resolved the callback completes: it
\* returns a tree for the resolved data, no render pass of the build raised,
\* and the build has no render error.
C23_ReadsAreRequested ==
  /\ \A path \in Reads : Requested(path)
  /\ phase \in { "rendering", "done" } =>
       /\ \A path \in Reads : HasPath(data, path)
       /\ Render(data) # Threw
       /\ \A p \in DOMAIN rendered : rendered[p] # Threw
  /\ \A h \in history : h.output # Threw
  /\ RenderError \notin errors

C23_Witness ==
  /\ phase = "done"
  /\ \A path \in Reads : HasPath(data, path)
  /\ Cardinality(history) >= 2
  /\ \A h \in history : h.input = data /\ h.output # Threw

EmptyString == Str(<<>>)

\* C24: when the configured social.github or social.email is the empty
\* string, no render pass raises, and every render tree still has two
\* hyperlinks, both <a> elements: the href of the first is exactly
\* "https://github.com/" when the handle is empty, and the href of the second
\* is exactly "mailto:" when the address is empty.
C24_LinksRenderedForEmptyStrings ==
  (github = EmptyString \/ email = EmptyString) =>
    /\ RenderError \notin errors
    /\ \A h \in history : h.output # Threw
    /\ \A t \in Trees :
         LET links == Links(t) IN
           /\ Len(links) = 2
           /\ github = EmptyString => links[1].props.href = Str(GithubPrefix)
           /\ email = EmptyString => links[2].props.href = Str(MailtoPrefix)

C24_Witness ==
  /\ github = EmptyString
  /\ email = EmptyString
  /\ phase = "done"
  /\ \E p \in DOMAIN output :
       /\ ProfileLinkOf(output[p]).props.href = Str(GithubPrefix)
       /\ ContactLinkOf(output[p]).props.href = Str(MailtoPrefix)

\* C25: in every render tree the first hyperlink in document order is the
\* profile link (its href starts with "https://github.com/") and the second
\* is the contact link (its href starts with "mailto:"); the contact link
\* has an href and no other attribute, so no target and no rel; and the
\* links that open a new browsing context are the profile link alone.
C25_ProfileFirstContactPlain ==
  \A t \in Trees :
    LET links == Links(t) IN
      /\ Len(links) = 2
      /\ StartsWith(links[1].props.href.s, GithubPrefix)
      /\ StartsWith(links[2].props.href.s, MailtoPrefix)
      /\ ~StartsWith(links[1].props.href.s, MailtoPrefix)
      /\ DOMAIN links[2].props = { "href" }
      /\ { i \in 1..Len(links) : OpensNewContext(links[i]) } = { 1 }

C25_Witness ==
  /\ phase = "done"
  /\ \E p \in DOMAIN output :
       LET links == Links(output[p]) IN
         /\ OpensNewContext(links[1])
         /\ ~OpensNewContext(links[2])
         /\ StartsWith(links[2].props.href.s, MailtoPrefix)

====
